---- MODULE Spec2Model ----
(***************************************************************************)
(* Model of tick: the OAuth authorization-code flow of src/auth.rs (the    *)
(* one-shot callback listener and the flows that drive it), the token      *)
(* exchange of src/client.rs, the branch of src/main.rs that selects the   *)
(* flow, and the task fetch of src/client.rs with main's ending.           *)
(*                                                                         *)
(* Strings are TLA+ strings; Len, \o and SubSeq work on them character by  *)
(* character.                                                              *)
(***************************************************************************)
EXTENDS Integers, Sequences, FiniteSets, TLC

\* Number of HTTP requests the environment may send to the local listener.
MaxReq == 2

VARIABLES
    env,             \* the TICKTICK_* environment variables that are set
    pc,              \* position of the main task
    flow,            \* the authentication function in progress
    run_error,       \* the error main returns with, if any
    file,            \* ~/.ticktick.toml on disk
    config,          \* the in-memory Config
    client,          \* the TickTickClient
    listener,        \* the warp server: "idle", "bound", "serving" ("closed": never)
    tx,              \* the Option in Arc<Mutex<Option<oneshot::Sender<String>>>>
    chan,            \* the value in flight in the oneshot channel
    reqs,            \* the HTTP requests, in order of arrival
    result,          \* what start_callback_server returned
    code,            \* the local `code` of the flow
    token_requests,  \* the codes POSTed to the token endpoint, in order
    exchange,        \* the last answer of the token endpoint and the call's result
    fetch,           \* the API operation called last: its inputs and what it returned
    api_calls,       \* the HTTP requests sent to the TickTick API, in order
    hist             \* history: the writes into and reads from the channel, the
                     \* writer, the order of the handlers, snapshots of the state,
                     \* the calls of Config::load, of bind and of Config::save

vars == <<env, pc, flow, run_error, file, config, client, listener, tx, chan,
          reqs, result, code, token_requests, exchange, fetch, api_calls, hist>>

-----------------------------------------------------------------------------
(* Option, Result and string helpers                                       *)

None == [some |-> FALSE]

Some(v) == [some |-> TRUE, val |-> v]

Ok(v) == [ok |-> TRUE, val |-> v]

Err(m) == [ok |-> FALSE, msg |-> m]

Pending == [pending |-> TRUE]

\* str::starts_with
StartsWith(s, p) == Len(s) >= Len(p) /\ SubSeq(s, 1, Len(p)) = p

\* str::ends_with
EndsWith(s, p) == Len(s) >= Len(p) /\ SubSeq(s, Len(s) - Len(p) + 1, Len(s)) = p

\* str::find, from index i on: the first index at which t occurs in s, 0 when
\* it does not occur
RECURSIVE FindFrom(_, _, _)
FindFrom(s, t, i) ==
    IF i > Len(s) - Len(t) + 1 THEN 0
    ELSE IF SubSeq(s, i, i + Len(t) - 1) = t THEN i
    ELSE FindFrom(s, t, i + 1)

Find(s, t) == FindFrom(s, t, 1)

\* str::contains
Contains(s, t) == Find(s, t) # 0

-----------------------------------------------------------------------------
(* The callback listener: start_callback_server, src/auth.rs 95-184         *)

\* The state every authorization URL of the program carries (auth.rs 76, 82,
\* 189, 195; client.rs 77).
AuthState == "state123"

\* An HTTP request: the path as its segments and the query parameters: "code"
\* and "error", which the handler reads (HashMap<String, String>::get), and
\* "state", which the authorization server copies from the authorization URL
\* into its redirect.
Request(path, c, e) == [path |-> path, code |-> c, error |-> e, state |-> Some(AuthState)]

\* A request that does not come from this run's authorization request: its
\* state is absent or another one.
Forged(req, s) == [req EXCEPT !.state = s]

NoRequest == Request(<<>>, None, None)

RequestInputs ==
    { Request(<<"callback">>, Some("abc"), None),
      Request(<<"callback">>, Some("xyz"), None),
      Request(<<"callback">>, Some("ERROR:abc"), None),
      Request(<<"callback">>, None, Some("denied")),
      Request(<<"callback">>, None, Some("ERROR:")),
      Request(<<"callback">>, Some("abc"), Some("denied")),
      Request(<<"callback">>, None, None),
      Request(<<"callback", "x">>, Some("xyz"), None),
      Request(<<"other">>, Some("abc"), None),
      Forged(Request(<<"callback">>, Some("abc"), None), Some("other")) }

\* warp::path("callback"): matches the first segment; the filter chain has no
\* warp::path::end(), so longer paths under /callback match as well.
PathMatches(path) == Len(path) >= 1 /\ path[1] = "callback"

\* The branch of the handler a request takes (auth.rs 104, 132, 159).
Branch(req) ==
    IF ~PathMatches(req.path) THEN "not_found"
    ELSE IF req.code.some THEN "code"
    ELSE IF req.error.some THEN "error"
    ELSE "not_found"

\* Mutation of SentValue: the error branch sends the bare error value.
SentValueNoPrefix(req) ==
    IF Branch(req) = "code" THEN req.code.val ELSE req.error.val

\* The string the handler sends into the channel (auth.rs 107, 135).
SentValue(req) ==
    IF Branch(req) = "code" THEN req.code.val ELSE "ERROR:" \o req.error.val

\* The page the handler replies with (auth.rs 109, 137, 160).
ReplyPage(req) ==
    CASE Branch(req) = "code" -> "success_page"
      [] Branch(req) = "error" -> "failure_page"
      [] OTHER -> "not_found"

\* Mutation of TakeSender: the sender is read and left in the slot.
TakeSenderClone(slot) == [taken |-> slot, left |-> slot]

\* Option::take on the sender slot (auth.rs 106, 134).
TakeSender(slot) == [taken |-> slot, left |-> None]

\* The match on rx.await (auth.rs 174-183); closed = the sender was dropped
\* without a send.
RecvResult(received) ==
    IF ~received.some THEN Err("Failed to receive authorization code")
    ELSE IF StartsWith(received.val, "ERROR:")
         THEN Err("Authorization error: " \o SubSeq(received.val, 6 + 1, Len(received.val)))
         ELSE Ok(received.val)

Reqs == 1..MaxReq

\* The environment (browser, or anything on localhost) sends a request; the
\* bound socket queues it. Requests are numbered in order of arrival.
Arrive(i, req) ==
    /\ listener \in {"bound", "serving"}
    /\ reqs[i].stage = "new"
    /\ \A j \in Reqs : j < i => reqs[j].stage # "new"
    /\ reqs' = [reqs EXCEPT ![i] = [stage |-> "arrived", req |-> req, resp |-> "none"]]
    /\ UNCHANGED <<env, pc, flow, run_error, file, config, client, listener, tx,
                   chan, result, code, token_requests, exchange, hist>>
    /\ UNCHANGED <<fetch, api_calls>>

\* A request sent once the browser has the authorization URL (auth.rs 83-85,
\* 196-198) and before the socket is bound (auth.rs 165-166): the connection
\* is refused and the request never reaches the program.
Refuse(i) ==
    /\ pc = "bind"
    /\ listener = "idle"
    /\ reqs[i].stage = "new"
    /\ \A j \in Reqs : j < i => reqs[j].stage # "new"
    /\ reqs' = [reqs EXCEPT ![i].stage = "refused"]
    /\ UNCHANGED <<env, pc, flow, run_error, file, config, client, listener, tx,
                   chan, result, code, token_requests, exchange, hist>>
    /\ UNCHANGED <<fetch, api_calls>>

\* The server task runs the handler on a request (auth.rs 100-162). A request
\* the filters or the handler reject gets not-found. In the code and error
\* branches the handler waits for tx.lock(); from the moment it holds the
\* guard it runs without a further await: take the sender, send if there was
\* one, build the reply, drop the guard. The action is that critical section,
\* so handlers act in the order in which they get the lock.
Handle(i) ==
    /\ listener = "serving"
    /\ reqs[i].stage = "arrived"
    /\ reqs' = [reqs EXCEPT ![i].stage = "replied", ![i].resp = ReplyPage(reqs[i].req)]
    /\ IF Branch(reqs[i].req) = "not_found"
       THEN UNCHANGED <<tx, chan, hist>>
       ELSE LET t == TakeSender(tx) IN
            /\ tx' = t.left
            /\ IF t.taken.some
               THEN /\ chan' = Some(SentValue(reqs[i].req))
                    /\ hist' = [hist EXCEPT !.sends = @ + 1, !.writer = i,
                                            !.delivered = Some(SentValue(reqs[i].req)),
                                            !.lock_order = Append(@, i)]
               ELSE /\ chan' = chan
                    /\ hist' = [hist EXCEPT !.lock_order = Append(@, i)]
    /\ UNCHANGED <<env, pc, flow, run_error, file, config, client, listener,
                   result, code, token_requests, exchange>>
    /\ UNCHANGED <<fetch, api_calls>>

\* The server writes the handler's reply to the connection.
Respond(i) ==
    /\ listener = "serving"
    /\ reqs[i].stage = "replied"
    /\ reqs' = [reqs EXCEPT ![i].stage = "responded"]
    /\ UNCHANGED <<env, pc, flow, run_error, file, config, client, listener, tx,
                   chan, result, code, token_requests, exchange, hist>>
    /\ UNCHANGED <<fetch, api_calls>>

\* start_callback_server up to the bound server: oneshot::channel(), the
\* sender in its Arc<Mutex<Option<..>>>, the filter, and
\* warp::serve(callback).bind(([127, 0, 0, 1], port)) (auth.rs 96-166).
Bind ==
    /\ pc = "bind"
    /\ tx' = Some("sender")
    /\ chan' = None
    /\ listener' = "bound"
    /\ pc' = "spawn"
    /\ hist' = [hist EXCEPT !.binds = @ + 1]
    /\ UNCHANGED <<env, flow, run_error, file, config, client, reqs,
                   result, code, token_requests, exchange>>
    /\ UNCHANGED <<fetch, api_calls>>

\* tokio::spawn(server) (auth.rs 171): the server runs detached.
SpawnServer ==
    /\ pc = "spawn"
    /\ listener' = "serving"
    /\ pc' = "await_rx"
    /\ UNCHANGED <<env, flow, run_error, file, config, client, tx, chan, reqs,
                   result, code, token_requests, exchange, hist>>
    /\ UNCHANGED <<fetch, api_calls>>

-----------------------------------------------------------------------------
(* The token exchange: TickTickClient::exchange_code_for_token,             *)
(* src/client.rs 83-121, and Config::save, src/config.rs 52-61              *)

\* The value of a string field of a JSON object text, None when absent.
JsonStringField(text, key) ==
    LET pat == "\"" \o key \o "\":\""
        i == Find(text, pat)
        rest == SubSeq(text, i + Len(pat), Len(text))
        j == Find(rest, "\"")
    IN IF i = 0 \/ j = 0 THEN None ELSE Some(SubSeq(rest, 1, j - 1))

\* serde_json::from_str::<TokenResponse>: access_token, token_type and scope
\* are required strings (types.rs 4-10).
ParseTokenResponse(text) ==
    LET at == JsonStringField(text, "access_token")
        tt == JsonStringField(text, "token_type")
        sc == JsonStringField(text, "scope")
    IN IF StartsWith(text, "{") /\ EndsWith(text, "}") /\ at.some /\ tt.some /\ sc.some
       THEN Some([access_token |-> at.val, token_type |-> tt.val, scope |-> sc.val])
       ELSE None

\* reqwest's StatusCode::is_success
IsSuccess(status) == status >= 200 /\ status <= 299

TokenBody == "{\"access_token\":\"tok123\",\"token_type\":\"bearer\",\"scope\":\"tasks:read\"}"

\* What the token endpoint may answer.
TokenResponses ==
    { [status |-> 200, body |-> TokenBody],
      [status |-> 200, body |-> "{\"token_type\":\"bearer\",\"scope\":\"tasks:read\"}"],
      [status |-> 400, body |-> "invalid_grant"],
      [status |-> 500, body |-> TokenBody] }

\* serde_json::from_str of each body the endpoint may answer with
\* (client.rs 107), computed once.
DecodedBodies == [text \in {r.body : r \in TokenResponses} |-> ParseTokenResponse(text)]

FileConfig(cfg) == [kind |-> "config", credentials |-> cfg.credentials,
                    access_token |-> cfg.access_token]

\* Mutation of Save: nothing is written, success is reported.
SaveNothing(cfg, f, save_ok) == [result |-> Ok("saved"), file |-> f]

\* Config::save: serialise and fs::write; on an I/O error the file is as before.
Save(cfg, f, save_ok) ==
    IF save_ok THEN [result |-> Ok("saved"), file |-> FileConfig(cfg)]
    ELSE [result |-> Err("Failed to write config file"), file |-> f]

\* Mutation of ExchangeCodeForToken: the token is stored and saved before the
\* status and the payload are looked at.
ExchangeTokenFirst(cl, cfg, f, resp, save_ok) ==
    LET parsed == DecodedBodies[resp.body]
        tok == IF parsed.some THEN Some(parsed.val.access_token) ELSE Some(resp.body)
        cfg2 == [cfg EXCEPT !.access_token = tok]
    IN [result |-> IF IsSuccess(resp.status) /\ parsed.some
                   THEN Ok("exchanged") ELSE Err("Failed to exchange code for token"),
        client |-> [cl EXCEPT !.access_token = tok],
        config |-> cfg2,
        file |-> FileConfig(cfg2),
        save_calls |-> 1]

\* The method from the arrival of the response on (client.rs 103-120): the
\* new client, config and file, the Result it returns and how often it
\* called Config::save.
ExchangeCodeForToken(cl, cfg, f, resp, save_ok) ==
    IF IsSuccess(resp.status)
    THEN LET parsed == DecodedBodies[resp.body] IN
         IF ~parsed.some
         THEN [result |-> Err("JSON decode error"), client |-> cl, config |-> cfg,
               file |-> f, save_calls |-> 0]
         ELSE LET cfg2 == [cfg EXCEPT !.access_token = Some(parsed.val.access_token)]
                  saved == Save(cfg2, f, save_ok)
              IN [result |-> IF saved.result.ok THEN Ok("exchanged") ELSE saved.result,
                  client |-> [cl EXCEPT !.access_token = Some(parsed.val.access_token)],
                  config |-> cfg2,
                  file |-> saved.file,
                  save_calls |-> 1]
    ELSE [result |-> Err("Failed to exchange code for token: " \o resp.body),
          client |-> cl, config |-> cfg, file |-> f, save_calls |-> 0]

-----------------------------------------------------------------------------
(* The task fetch: get_auth_header, get_projects, get_project_data,         *)
(* is_task_due_today and get_todays_tasks, src/client.rs 123-240            *)

\* Number of projects the API may list.
MaxProjects == 2

Digits == {"0", "1", "2", "3", "4", "5", "6", "7", "8", "9"}

\* every character of s at the positions ps is a digit
DigitsAt(s, ps) == \A k \in ps : SubSeq(s, k, k) \in Digits

\* dtparse::parse on the two shapes the API's dates take here, a date and a
\* date with a time (an offset after the time is parsed and dropped by the
\* callers, client.rs 180, 194): the NaiveDateTime, or an error.
ParseDate(s) ==
    LET date_ok == /\ Len(s) >= 10
                   /\ DigitsAt(s, {1, 2, 3, 4, 6, 7, 9, 10})
                   /\ SubSeq(s, 5, 5) = "-"
                   /\ SubSeq(s, 8, 8) = "-"
        time_ok == /\ Len(s) >= 19
                   /\ SubSeq(s, 11, 11) = "T"
                   /\ DigitsAt(s, {12, 13, 15, 16, 18, 19})
                   /\ SubSeq(s, 14, 14) = ":"
                   /\ SubSeq(s, 17, 17) = ":"
    IN IF date_ok /\ Len(s) = 10
       THEN Ok([date |-> s, time |-> "00:00:00"])
       ELSE IF date_ok /\ time_ok
       THEN Ok([date |-> SubSeq(s, 1, 10), time |-> SubSeq(s, 12, 19)])
       ELSE Err("could not parse date")

\* The date strings the tasks of the model carry.
DateStrings ==
    { "2026-11-04T09:00:00+0000", "2026-11-04T02:30:00+0000",
      "2026-11-05T01:30:00+0000", "2026-11-03T23:59:59+0000",
      "2026-11-05", "someday", "2027-01-01T15:45:00+0000", "" }

\* dtparse::parse of each of them, computed once.
ParsedDates == [s \in DateStrings |-> ParseDate(s)]

\* What Local::now().date_naive() may be (client.rs 176).
Todays == {"2026-11-04", "2026-11-05"}

\* The local time zones: "utc" has no transitions; in "dst" the local time
\* 02:30 does not exist on 2026-11-04 and 01:30 occurs twice on 2026-11-05.
Zones == {"utc", "dst"}

\* Local.from_local_datetime (client.rs 182, 196): a LocalResult.
FromLocalDatetime(dt, zone) ==
    IF zone = "dst" /\ dt = [date |-> "2026-11-04", time |-> "02:30:00"]
    THEN [kind |-> "none"]
    ELSE IF zone = "dst" /\ dt = [date |-> "2026-11-05", time |-> "01:30:00"]
    THEN [kind |-> "ambiguous"]
    ELSE [kind |-> "single", date_naive |-> dt.date]

\* .single().map(|dt| dt.date_naive()).unwrap_or_else(|| d.date())
\* (client.rs 182-185, 196-199)
LocalDate(dt, zone) ==
    LET r == FromLocalDatetime(dt, zone)
    IN IF r.kind = "single" THEN r.date_naive ELSE dt.date

\* one of the two `if let` blocks of is_task_due_today on an Option<String>
DateIsToday(raw, today, zone) ==
    /\ raw.some
    /\ ParsedDates[raw.val].ok
    /\ LocalDate(ParsedDates[raw.val].val, zone) = today

\* Mutation of IsTaskDueToday: only the due date is looked at.
DueDateOnly(task, today, zone) == DateIsToday(task.due_date, today, zone)

\* is_task_due_today (client.rs 175-209)
IsTaskDueToday(task, today, zone) ==
    \/ DateIsToday(task.due_date, today, zone)
    \/ DateIsToday(task.start_date, today, zone)

\* get_auth_header (client.rs 123-128)
GetAuthHeader(token) ==
    IF token.some THEN Ok("Bearer " \o token.val)
    ELSE Err("No access token available. Please authenticate first.")

\* An answer of the API: whether one arrived at all, its status and its body;
\* the body is text that decodes as a value of one shape (a list of projects,
\* the data of a project) or of none.
Response(status, text, shape, value) ==
    [arrived |-> TRUE, status |-> status,
     body |-> [text |-> text, shape |-> shape, value |-> value]]

NoResponse ==
    [arrived |-> FALSE, status |-> 0,
     body |-> [text |-> "", shape |-> "none", value |-> <<>>]]

\* Mutation of GetProjects: the request is built and sent before the token is
\* looked at.
GetProjectsSendFirst(token, resp) ==
    LET h == GetAuthHeader(token)
        call == [url |-> "/open/v1/project",
                 authorization |-> IF h.ok THEN h.val ELSE ""]
    IN [result |-> IF ~h.ok THEN h
                   ELSE IF resp.arrived /\ IsSuccess(resp.status)
                           /\ resp.body.shape = "projects"
                   THEN Ok(resp.body.value)
                   ELSE Err("Failed to get projects"),
        calls |-> <<call>>]

\* get_projects (client.rs 130-150): the Result and the requests sent.
GetProjects(token, resp) ==
    LET h == GetAuthHeader(token) IN
    IF ~h.ok THEN [result |-> h, calls |-> <<>>]
    ELSE [result |->
            IF ~resp.arrived THEN Err("error sending request")
            ELSE IF IsSuccess(resp.status)
            THEN IF resp.body.shape = "projects" THEN Ok(resp.body.value)
                 ELSE Err("JSON decode error")
            ELSE Err("Failed to get projects: " \o resp.body.text),
          calls |-> << [url |-> "/open/v1/project", authorization |-> h.val] >>]

\* get_project_data (client.rs 152-173): the Result and the requests sent.
GetProjectData(token, project_id, resp) ==
    LET h == GetAuthHeader(token) IN
    IF ~h.ok THEN [result |-> h, calls |-> <<>>]
    ELSE [result |->
            IF ~resp.arrived THEN Err("error sending request")
            ELSE IF IsSuccess(resp.status)
            THEN IF resp.body.shape = "project_data" THEN Ok(resp.body.value)
                 ELSE Err("JSON decode error")
            ELSE Err("Failed to get project data: " \o resp.body.text),
          calls |-> << [url |-> "/open/v1/project/" \o project_id \o "/data",
                        authorization |-> h.val] >>]

\* the test of client.rs 227
Qualifies(task, today, zone) == task.status = 0 /\ IsTaskDueToday(task, today, zone)

\* Mutation of LoopStep: the first failure ends the loop, as `?` would.
LoopStepAborting(acc, token, today, zone, api, project) ==
    LET got == GetProjectData(token, project.id, api.data[project.id]) IN
    IF acc.printed # <<>> THEN acc
    ELSE IF got.result.ok
    THEN [acc EXCEPT !.tasks = @ \o SelectSeq(got.result.val.tasks,
                                        LAMBDA t : Qualifies(t, today, zone)),
                     !.calls = @ \o got.calls]
    ELSE [acc EXCEPT !.printed = Append(@, [project |-> project.name,
                                            reason |-> got.result.msg]),
                     !.calls = @ \o got.calls]

\* One turn of the loop of get_todays_tasks (client.rs 221-237): the tasks
\* pushed, the requests sent and the line printed for a failure.
LoopStep(acc, token, today, zone, api, project) ==
    LET got == GetProjectData(token, project.id, api.data[project.id]) IN
    IF got.result.ok
    THEN [acc EXCEPT !.tasks = @ \o SelectSeq(got.result.val.tasks,
                                        LAMBDA t : Qualifies(t, today, zone)),
                     !.calls = @ \o got.calls]
    ELSE [acc EXCEPT !.printed = Append(@, [project |-> project.name,
                                            reason |-> got.result.msg]),
                     !.calls = @ \o got.calls]

\* `for project in projects` (client.rs 221)
RECURSIVE Loop(_, _, _, _, _, _, _)
Loop(acc, token, today, zone, api, projects, i) ==
    IF i > Len(projects) THEN acc
    ELSE Loop(LoopStep(acc, token, today, zone, api, projects[i]),
              token, today, zone, api, projects, i + 1)

\* Mutation of GetTodaysTasks: a failure of get_projects is treated like a
\* failure of one project, printed and followed by an empty list.
GetTodaysTasksTolerant(token, today, zone, api) ==
    LET listed == GetProjects(token, api.projects) IN
    IF ~listed.result.ok
    THEN [result |-> Ok(<<>>), calls |-> listed.calls,
          printed |-> << [project |-> "", reason |-> listed.result.msg] >>]
    ELSE LET acc == Loop([tasks |-> <<>>, calls |-> listed.calls, printed |-> <<>>],
                         token, today, zone, api, listed.result.val, 1)
         IN [result |-> Ok(acc.tasks), calls |-> acc.calls, printed |-> acc.printed]

\* get_todays_tasks (client.rs 211-240): the Result, the requests sent and
\* the failures printed.
GetTodaysTasks(token, today, zone, api) ==
    LET listed == GetProjects(token, api.projects) IN
    IF ~listed.result.ok
    THEN [result |-> listed.result, calls |-> listed.calls, printed |-> <<>>]
    ELSE LET acc == Loop([tasks |-> <<>>, calls |-> listed.calls, printed |-> <<>>],
                         token, today, zone, api, listed.result.val, 1)
         IN [result |-> Ok(acc.tasks), calls |-> acc.calls, printed |-> acc.printed]

-----------------------------------------------------------------------------
(* What the API may answer, and the client's operations called on it        *)

ProjectId(i) == "p" \o ToString(i)

\* types.rs 12-24
Project(i) == [id |-> ProjectId(i), name |-> "Project " \o ToString(i)]

\* types.rs 43-69: the fields the fetch reads
Task(id, project_id, status, due_date, start_date) ==
    [id |-> id, project_id |-> project_id, status |-> status,
     due_date |-> due_date, start_date |-> start_date]

\* The task lists a project may hold.
TaskLists(pid) ==
    { <<>>,
      << Task("a", pid, 0, Some("2026-11-04T09:00:00+0000"), None),
         Task("b", pid, 2, Some("2026-11-04T09:00:00+0000"), None) >>,
      << Task("c", pid, 0, None, Some("2026-11-04T02:30:00+0000")),
         Task("d", pid, 0, Some("someday"), None),
         Task("e", pid, 0, Some("2026-11-03T23:59:59+0000"),
                           Some("2026-11-05T01:30:00+0000")) >>,
      << Task("f", pid, 0, None, None),
         Task("g", pid, 0, Some("someday"), Some("2026-11-05")),
         Task("h", pid, 1, None, Some("2026-11-04T09:00:00+0000")) >> }

\* What GET /project/{id}/data may answer.
DataResponses(pid) ==
    { Response(200, "project data", "project_data", [tasks |-> l]) : l \in TaskLists(pid) }
    \cup { Response(500, "server error", "none", <<>>),
           Response(200, "<html>", "none", <<>>),
           NoResponse }

\* What GET /project may answer.
ProjectsResponses ==
    { Response(200, "projects", "projects", [i \in 1..n |-> Project(i)]) :
          n \in 0..MaxProjects }
    \cup { Response(401, "token expired", "none", <<>>),
           Response(200, "<html>", "none", <<>>),
           NoResponse }

\* the ids of the projects an answer lists
ListedIds(pr) ==
    IF pr.body.shape = "projects"
    THEN {pr.body.value[i].id : i \in 1..Len(pr.body.value)}
    ELSE {}

\* The API: its answer to the project list and to the data of each project.
Apis ==
    UNION { { [projects |-> pr, data |-> d] :
                d \in { f \in [ListedIds(pr) ->
                                 UNION {DataResponses(id) : id \in ListedIds(pr)}] :
                          \A id \in ListedIds(pr) : f[id] \in DataResponses(id) } } :
            pr \in ProjectsResponses }

\* A call of one of the client's operations and, once it returned, its result.
Call(op, project_id, today, zone, api) ==
    [op |-> op, project_id |-> project_id, today |-> today, zone |-> zone,
     api |-> api, out |-> Pending, printed |-> <<>>]

NoCall == Call("none", "", "", "", [projects |-> NoResponse, data |-> <<>>])

FetchInputs ==
    { Call("get_todays_tasks", "", today, zone, api) :
          today \in Todays, zone \in Zones, api \in Apis }
    \cup { Call("get_projects", "", "", "", api) : api \in Apis }
    \cup UNION { { Call("get_project_data", id, "", "", api) : id \in DOMAIN api.data } :
                 api \in Apis }

\* The API as main's run may find it: the project list refused; one project
\* with nothing for today; two projects, the first failing and the second
\* with a task for today.
MainApis ==
    { [projects |-> Response(401, "token expired", "none", <<>>), data |-> <<>>],
      [projects |-> Response(200, "projects", "projects", <<Project(1)>>),
       data |-> [id \in {ProjectId(1)} |->
                   Response(200, "project data", "project_data", [tasks |-> <<>>])]],
      [projects |-> Response(200, "projects", "projects", <<Project(1), Project(2)>>),
       data |-> [id \in {ProjectId(1), ProjectId(2)} |->
                   IF id = ProjectId(1)
                   THEN Response(500, "server error", "none", <<>>)
                   ELSE Response(200, "project data", "project_data",
                                 [tasks |-> << Task("a", id, 0,
                                                    Some("2026-11-04T09:00:00+0000"),
                                                    None) >>])]] }

MainFetchInputs == { Call("get_todays_tasks", "", "2026-11-04", "utc", api) : api \in MainApis }

\* What the second GET /project of main (main.rs 104) may be answered.
NamesResponses ==
    { Response(200, "projects", "projects", <<Project(1), Project(2)>>),
      Response(500, "server error", "none", <<>>) }

\* get_todays_tasks called on the client
CallGetTodaysTasks ==
    /\ pc = "call"
    /\ fetch.op = "get_todays_tasks"
    /\ LET out == GetTodaysTasks(client.access_token, fetch.today, fetch.zone, fetch.api) IN
        /\ fetch' = [fetch EXCEPT !.out = out.result, !.printed = out.printed]
        /\ api_calls' = api_calls \o out.calls
    /\ pc' = "returned"
    /\ UNCHANGED <<env, flow, run_error, file, config, client, listener, tx, chan,
                   reqs, result, code, token_requests, exchange, hist>>

\* get_projects called on the client
CallGetProjects ==
    /\ pc = "call"
    /\ fetch.op = "get_projects"
    /\ LET out == GetProjects(client.access_token, fetch.api.projects) IN
        /\ fetch' = [fetch EXCEPT !.out = out.result]
        /\ api_calls' = api_calls \o out.calls
    /\ pc' = "returned"
    /\ UNCHANGED <<env, flow, run_error, file, config, client, listener, tx, chan,
                   reqs, result, code, token_requests, exchange, hist>>

\* get_project_data called on the client
CallGetProjectData ==
    /\ pc = "call"
    /\ fetch.op = "get_project_data"
    /\ LET out == GetProjectData(client.access_token, fetch.project_id,
                                 fetch.api.data[fetch.project_id]) IN
        /\ fetch' = [fetch EXCEPT !.out = out.result]
        /\ api_calls' = api_calls \o out.calls
    /\ pc' = "returned"
    /\ UNCHANGED <<env, flow, run_error, file, config, client, listener, tx, chan,
                   reqs, result, code, token_requests, exchange, hist>>

-----------------------------------------------------------------------------
(* format_time, src/display.rs 29-52, and debug_request, src/client.rs      *)
(* 30-70, with is_task_due_today called on a single task                    *)

\* a number below 100 as two digits, and back
TwoDigits(n) == IF n < 10 THEN "0" \o ToString(n) ELSE ToString(n)

NumberOf(s) == CHOOSE n \in 0..99 : TwoDigits(n) = s

YearOf(s) == CHOOSE y \in 1900..2100 : ToString(y) = s

DaysInMonth(y, m) ==
    IF m = 2 THEN (IF y % 4 = 0 /\ (y % 100 # 0 \/ y % 400 = 0) THEN 29 ELSE 28)
    ELSE IF m \in {4, 6, 9, 11} THEN 30
    ELSE 31

\* NaiveDate + chrono::Days::new(1) (display.rs 44) on a "YYYY-MM-DD" date
NextDay(date) ==
    LET y == YearOf(SubSeq(date, 1, 4))
        m == NumberOf(SubSeq(date, 6, 7))
        d == NumberOf(SubSeq(date, 9, 10))
    IN IF d < DaysInMonth(y, m)
       THEN SubSeq(date, 1, 8) \o TwoDigits(d + 1)
       ELSE IF m < 12
       THEN SubSeq(date, 1, 5) \o TwoDigits(m + 1) \o "-01"
       ELSE ToString(y + 1) \o "-01-01"

\* format("%I:%M %p") of a time "HH:MM:SS"
FormatClock(time) ==
    LET h == NumberOf(SubSeq(time, 1, 2))
        h12 == IF h % 12 = 0 THEN 12 ELSE h % 12
    IN TwoDigits(h12) \o ":" \o SubSeq(time, 4, 5) \o " "
       \o (IF h < 12 THEN "AM" ELSE "PM")

MonthNames == << "Jan", "Feb", "Mar", "Apr", "May", "Jun",
                 "Jul", "Aug", "Sep", "Oct", "Nov", "Dec" >>

\* format("%b %d %I:%M %p") of a datetime
FormatMonthDay(dt) ==
    MonthNames[NumberOf(SubSeq(dt.date, 6, 7))] \o " " \o SubSeq(dt.date, 9, 10)
    \o " " \o FormatClock(dt.time)

\* display.rs 38-48: "Today", "Tomorrow" or the month and day, by the date of
\* local_datetime against the date of now.
Render(local_datetime, now) ==
    IF local_datetime.date = now.date
    THEN "Today " \o FormatClock(local_datetime.time)
    ELSE IF local_datetime.date = NextDay(now.date)
    THEN "Tomorrow " \o FormatClock(local_datetime.time)
    ELSE FormatMonthDay(local_datetime)

\* Mutation of FormatTime: a string that does not parse is shown as it is.
FormatTimeEcho(date_str, now, zone) ==
    IF ParsedDates[date_str].ok
    THEN Render(ParsedDates[date_str].val, now)
    ELSE date_str

\* format_time (display.rs 29-52): .single().unwrap_or_else(|| Local::now())
\* takes the current time when the local time is not a single one.
FormatTime(date_str, now, zone) ==
    IF ParsedDates[date_str].ok
    THEN LET datetime == ParsedDates[date_str].val
             local_datetime == IF FromLocalDatetime(datetime, zone).kind = "single"
                               THEN datetime ELSE now
         IN Render(local_datetime, now)
    ELSE "Invalid time"

\* What Local::now() may be.
Nows ==
    { [date |-> "2026-11-04", time |-> "10:15:00"],
      [date |-> "2026-11-03", time |-> "23:40:00"],
      [date |-> "2026-11-05", time |-> "00:05:00"],
      [date |-> "2026-12-31", time |-> "13:00:00"] }

\* An HTTP request as reqwest builds it: header names are lower case.
HttpRequest(method, url, headers, body) ==
    [method |-> method, url |-> url, headers |-> headers, body |-> body]

\* The requests the client hands to debug_request (client.rs 95-101, 133-137,
\* 155-160), and a POST the redaction does not apply to.
LoggedRequests ==
    { HttpRequest("POST", "https://ticktick.com/oauth/token",
                  << [name |-> "authorization", value |-> "Basic aWQ6c2VjcmV0"],
                     [name |-> "content-type",
                      value |-> "application/x-www-form-urlencoded"] >>,
                  Some("client_id=id&client_secret=secret&code=" \o c
                       \o "&grant_type=authorization_code")) : c \in {"abc", "xyz"} }
    \cup { HttpRequest("GET", "https://api.ticktick.com/open/v1/project",
                       << [name |-> "authorization",
                           value |-> "Bearer " \o t] >>, None) :
               t \in {"tok123", "stored", "envtoken"} }
    \cup { HttpRequest("GET", "https://api.ticktick.com/open/v1/project/p1/data",
                       << [name |-> "authorization", value |-> "Bearer tok123"] >>, None),
           HttpRequest("POST", "https://api.ticktick.com/open/v1/task",
                       << [name |-> "authorization", value |-> "Bearer tok123"],
                          [name |-> "content-type", value |-> "application/json"] >>,
                       Some("{}")) }

\* the line debug_request prints for a header (client.rs 37-43): only the
\* authorization header is printed, with its value ({:?})
HeaderLine(h) ==
    IF h.name = "authorization"
    THEN << "   " \o h.name \o ": \"" \o h.value \o "\"" >>
    ELSE <<>>

RECURSIVE HeaderLines(_, _)
HeaderLines(headers, i) ==
    IF i > Len(headers) THEN <<>>
    ELSE HeaderLine(headers[i]) \o HeaderLines(headers, i + 1)

\* the line for the body (client.rs 46-56)
BodyLines(body) ==
    IF ~body.some THEN <<>>
    ELSE IF Contains(body.val, "client_secret")
    THEN << "   Body: [CONTAINS SENSITIVE DATA - REDACTED]" >>
    ELSE << "   Body: " \o body.val >>

\* debug_request up to the sending of the request (client.rs 31-58): the
\* lines it prints.
DebugRequest(request, description) ==
    << "HTTP " \o request.method \o " " \o request.url >>
    \o HeaderLines(request.headers, 1)
    \o BodyLines(request.body)
    \o << "   Sending " \o description \o " request..." >>

\* the tasks is_task_due_today is called on
SampleTasks == UNION { {l[k] : k \in 1..Len(l)} : l \in TaskLists("p1") }

\* A call of a helper and, once it returned, its result.
HelperCall(op, arg, now, zone) ==
    [op |-> op, arg |-> arg, now |-> now, zone |-> zone, out |-> Pending]

HelperInputs ==
    { HelperCall("is_task_due_today", t, now, zone) :
          t \in SampleTasks, now \in Nows, zone \in Zones }
    \cup { HelperCall("format_time", s, now, zone) :
               s \in DateStrings, now \in Nows, zone \in Zones }
    \cup { HelperCall("debug_request", r, [date |-> "", time |-> ""], "utc") :
               r \in LoggedRequests }

\* is_task_due_today called on a task
CallIsTaskDueToday ==
    /\ pc = "call"
    /\ fetch.op = "is_task_due_today"
    /\ fetch' = [fetch EXCEPT !.out = IsTaskDueToday(fetch.arg, fetch.now.date, fetch.zone)]
    /\ pc' = "returned"
    /\ UNCHANGED <<env, flow, run_error, file, config, client, listener, tx, chan,
                   reqs, result, code, token_requests, exchange, api_calls, hist>>

\* format_time called on a date string
CallFormatTime ==
    /\ pc = "call"
    /\ fetch.op = "format_time"
    /\ fetch' = [fetch EXCEPT !.out = FormatTime(fetch.arg, fetch.now, fetch.zone)]
    /\ pc' = "returned"
    /\ UNCHANGED <<env, flow, run_error, file, config, client, listener, tx, chan,
                   reqs, result, code, token_requests, exchange, api_calls, hist>>

\* debug_request called on a request
CallDebugRequest ==
    /\ pc = "call"
    /\ fetch.op = "debug_request"
    /\ fetch' = [fetch EXCEPT !.out = DebugRequest(fetch.arg, "API")]
    /\ pc' = "returned"
    /\ UNCHANGED <<env, flow, run_error, file, config, client, listener, tx, chan,
                   reqs, result, code, token_requests, exchange, api_calls, hist>>

-----------------------------------------------------------------------------
(* main, src/main.rs 16-126, and the two flows, src/auth.rs 11-93, 186-206  *)

FileMissing == [kind |-> "missing"]

FileMalformed == [kind |-> "malformed"]

\* Config::load (config.rs 33-50)
Load(f) ==
    IF f.kind = "config"
    THEN Ok([credentials |-> f.credentials, access_token |-> f.access_token])
    ELSE Err("Configuration file not found or not parsed")

\* TickTickClient::new (client.rs 20-28)
NewClient(cfg) == [credentials |-> cfg.credentials, access_token |-> None]

NoConfig == [credentials |-> "none", access_token |-> None]

NoClient == [credentials |-> "none", access_token |-> None]

Snapshot == [client |-> client, config |-> config, file |-> file]

\* Mutation of CallbackStep: the flow goes on to the exchange whatever the
\* listener returned.
CallbackStepIgnoringError(r) ==
    [pc |-> "exchange", code |-> IF r.ok THEN r.val ELSE r.msg, error |-> None]

\* Mutation of CallbackStep: after an error of the listener the flow starts
\* again.
CallbackStepRetry(r) ==
    IF r.ok THEN [pc |-> "exchange", code |-> r.val, error |-> None]
    ELSE [pc |-> "oauth_start", code |-> "", error |-> None]

\* `let code = start_callback_server(..).await?;` (auth.rs 88, 201): where the
\* flow goes with the listener's result.
CallbackStep(r) ==
    IF r.ok THEN [pc |-> "exchange", code |-> r.val, error |-> None]
    ELSE [pc |-> "aborted", code |-> "", error |-> Some(r.msg)]

EnvVars == {"TICKTICK_CLIENT_ID", "TICKTICK_CLIENT_SECRET",
            "TICKTICK_REDIRECT_URI", "TICKTICK_ACCESS_TOKEN"}

\* Mutation of EnvFastPath: the token alone selects the fast path.
EnvTokenOnly(e) == "TICKTICK_ACCESS_TOKEN" \in e

\* the `if let (Ok(..), Ok(..), Ok(..), Ok(..))` of main.rs 18-23
EnvFastPath(e) == EnvVars \subseteq e

\* main.rs 18-28: all four environment variables are set.
MainEnv ==
    /\ pc = "main"
    /\ EnvFastPath(env)
    /\ client' = [credentials |-> "env", access_token |-> Some("envtoken")]
    /\ pc' = "authenticated"
    /\ UNCHANGED <<env, flow, run_error, file, config, listener, tx, chan, reqs,
                   result, code, token_requests, exchange, hist>>
    /\ UNCHANGED <<fetch, api_calls>>

\* main.rs 30-43, 67-75, 81-83: Config::load and the branch on its result.
MainLoad ==
    /\ pc = "main"
    /\ ~EnvFastPath(env)
    /\ hist' = [hist EXCEPT !.loads = @ + 1]
    /\ LET l == Load(file) IN
       IF l.ok
       THEN /\ config' = l.val
            /\ IF l.val.access_token.some
               THEN /\ client' = [NewClient(l.val) EXCEPT !.access_token = l.val.access_token]
                    /\ pc' = "verify"
                    /\ flow' = flow
               ELSE /\ client' = NewClient(l.val)
                    /\ pc' = "oauth_start"
                    /\ flow' = "perform_oauth_flow"
       ELSE /\ pc' = "interactive_auth"
            /\ flow' = "interactive_auth"
            /\ UNCHANGED <<config, client>>
    /\ UNCHANGED <<env, run_error, file, listener, tx, chan, reqs,
                   result, code, token_requests, exchange, fetch, api_calls>>

\* What the verification GET /project of main.rs 47 may be answered.
VerifyResponses ==
    { Response(200, "projects", "projects", <<Project(1)>>),
      Response(401, "token expired", "none", <<>>) }

\* Mutation of AfterVerify: after a failed verification the flow starts with
\* the client that still holds the stored token.
AfterVerifyKeepToken(r, cfg, cl) ==
    IF r.ok
    THEN [pc |-> "authenticated", config |-> cfg, client |-> cl, flow |-> "none"]
    ELSE [pc |-> "oauth_start", config |-> cfg, client |-> cl,
          flow |-> "perform_oauth_flow"]

\* The match of main.rs 47-65 on the result of the verification.
AfterVerify(r, cfg, cl) ==
    IF r.ok
    THEN [pc |-> "authenticated", config |-> cfg, client |-> cl, flow |-> "none"]
    ELSE LET cfg2 == [cfg EXCEPT !.access_token = None]
         IN [pc |-> "oauth_start", config |-> cfg2, client |-> NewClient(cfg2),
             flow |-> "perform_oauth_flow"]

\* main.rs 47-65: the stored token is tried with get_projects; when that
\* fails the token is cleared in memory and a new client starts the flow.
VerifyToken(resp) ==
    /\ pc = "verify"
    /\ LET got == GetProjects(client.access_token, resp)
           step == AfterVerify(got.result, config, client)
       IN /\ api_calls' = api_calls \o got.calls
          /\ hist' = [hist EXCEPT !.verified = IF got.result.ok THEN "ok" ELSE "failed"]
          /\ pc' = step.pc
          /\ config' = step.config
          /\ client' = step.client
          /\ flow' = step.flow
    /\ UNCHANGED <<env, run_error, file, listener, tx, chan, reqs,
                   result, code, token_requests, exchange, fetch>>

\* Mutation of AfterLoadError: the credentials are asked for whatever the
\* user answered.
AfterLoadErrorAlwaysTyped(answer_yes, f) ==
    [pc |-> "oauth_start", file |-> f, error |-> None,
     config |-> [credentials |-> "typed", access_token |-> None]]

\* interactive_auth after Config::load failed (auth.rs 20-65): on "y" the
\* example file is written (config.rs 63-93) and the function returns an
\* error; otherwise the user types the credentials.
AfterLoadError(answer_yes, f) ==
    IF answer_yes
    THEN [pc |-> "aborted",
          file |-> IF f.kind = "missing"
                   THEN FileConfig([credentials |-> "example", access_token |-> None])
                   ELSE f,
          error |-> Some(IF f.kind = "missing"
                         THEN "Please edit the configuration file"
                         ELSE "Configuration file already exists"),
          config |-> NoConfig]
    ELSE [pc |-> "oauth_start", file |-> f, error |-> None,
          config |-> [credentials |-> "typed", access_token |-> None]]

\* interactive_auth up to the client (auth.rs 17-72): Config::load again; on
\* its error the user either asks for an example file (and the run ends) or
\* types the credentials.
InteractiveAuth(answer_yes) ==
    /\ pc = "interactive_auth"
    /\ LET l == Load(file) IN
       IF l.ok
       THEN /\ config' = l.val
            /\ client' = NewClient(l.val)
            /\ pc' = "oauth_start"
            /\ hist' = [hist EXCEPT !.loads = @ + 1]
            /\ UNCHANGED <<file, run_error>>
       ELSE LET step == AfterLoadError(answer_yes, file) IN
            /\ hist' = [hist EXCEPT !.loads = @ + 1, !.answer_yes = Some(answer_yes)]
            /\ pc' = step.pc
            /\ file' = step.file
            /\ run_error' = step.error
            /\ config' = IF step.pc = "aborted" THEN config ELSE step.config
            /\ client' = IF step.pc = "aborted" THEN client ELSE NewClient(step.config)
    /\ UNCHANGED <<env, flow, listener, tx, chan, reqs,
                   result, code, token_requests, exchange>>
    /\ UNCHANGED <<fetch, api_calls>>

\* The flow prints the authorization URL and launches the browser
\* (auth.rs 74-85, 188-198), then calls start_callback_server.
OAuthStart ==
    /\ pc = "oauth_start"
    /\ hist' = [hist EXCEPT !.flow_start = Some(Snapshot)]
    /\ pc' = "bind"
    /\ UNCHANGED <<env, flow, run_error, file, config, client, listener, tx, chan,
                   reqs, result, code, token_requests, exchange>>
    /\ UNCHANGED <<fetch, api_calls>>

\* rx.await completes with the value sent, start_callback_server returns
\* (auth.rs 174-183) and the flow applies `?` to what it returned
\* (auth.rs 88, 201).
Receive ==
    /\ pc = "await_rx"
    /\ chan.some
    /\ chan' = None
    /\ hist' = [hist EXCEPT !.received = @ + 1]
    /\ LET r == RecvResult(chan)
           step == CallbackStep(r)
       IN /\ result' = r
          /\ pc' = step.pc
          /\ code' = step.code
          /\ run_error' = step.error
    /\ UNCHANGED <<env, flow, file, config, client, listener, tx, reqs,
                   token_requests, exchange>>
    /\ UNCHANGED <<fetch, api_calls>>

\* exchange_code_for_token: the POST with the code fails in transport (the `?`
\* of client.rs 101, 104, 117), and the flow and main return the error.
ExchangeTransportError ==
    /\ pc = "exchange"
    /\ token_requests' = Append(token_requests, code)
    /\ hist' = [hist EXCEPT !.before_exchange = Some(Snapshot)]
    /\ exchange' = [response |-> None, result |-> Err("error sending request")]
    /\ run_error' = Some("error sending request")
    /\ pc' = "aborted"
    /\ UNCHANGED <<env, flow, file, config, client, listener, tx, chan, reqs, result, code>>
    /\ UNCHANGED <<fetch, api_calls>>

\* exchange_code_for_token: the POST with the code (client.rs 84-101), the
\* answer of the token endpoint and what the method does with it
\* (client.rs 103-120); the flow returns its result (auth.rs 91-92, 204-205).
ExchangeResponse(resp, save_ok) ==
    /\ pc = "exchange"
    /\ token_requests' = Append(token_requests, code)
    /\ LET out == ExchangeCodeForToken(client, config, file, resp, save_ok) IN
        /\ hist' = [hist EXCEPT !.before_exchange = Some(Snapshot),
                                !.saves = @ + out.save_calls]
        /\ client' = out.client
        /\ config' = out.config
        /\ file' = out.file
        /\ exchange' = [response |-> Some(resp), result |-> out.result]
        /\ run_error' = IF out.result.ok THEN None ELSE Some(out.result.msg)
        /\ pc' = IF out.result.ok THEN "authenticated" ELSE "aborted"
    /\ UNCHANGED <<env, flow, listener, tx, chan, reqs, result, code>>
    /\ UNCHANGED <<fetch, api_calls>>

\* The rest of main (main.rs 94-125): get_todays_tasks; for a non-empty list
\* the second get_projects, whose error `?` returns from main; an error of
\* get_todays_tasks is printed; Ok(()).
MainFetch(call, names) ==
    /\ pc = "authenticated"
    /\ LET out == GetTodaysTasks(client.access_token, call.today, call.zone, call.api)
           named == IF out.result.ok /\ out.result.val # <<>>
                    THEN GetProjects(client.access_token, names)
                    ELSE [result |-> Ok(<<>>), calls |-> <<>>]
       IN /\ fetch' = [call EXCEPT !.out = out.result, !.printed = out.printed]
          /\ api_calls' = api_calls \o out.calls \o named.calls
          /\ run_error' = IF named.result.ok THEN None ELSE Some(named.result.msg)
          /\ pc' = IF named.result.ok THEN "done" ELSE "aborted"
    /\ UNCHANGED <<env, flow, file, config, client, listener, tx, chan,
                   reqs, result, code, token_requests, exchange, hist>>

-----------------------------------------------------------------------------

InitialFiles ==
    { FileMissing, FileMalformed,
      FileConfig([credentials |-> "user", access_token |-> None]),
      FileConfig([credentials |-> "user", access_token |-> Some("stored")]) }

\* The environments a run may start in: all four variables, all but one,
\* none.
Envs == {EnvVars, EnvVars \ {"TICKTICK_REDIRECT_URI"}, {}}

\* How many requests the environment sends to the listener in a run: up to
\* MaxReq in the run that goes straight to the flow (no variable set, a
\* config file without token), one in the others.
Sendable(e, f) ==
    IF e = {} /\ f = FileConfig([credentials |-> "user", access_token |-> None])
    THEN MaxReq ELSE 1

NoHistory ==
    [sends |-> 0, received |-> 0, writer |-> 0,
     delivered |-> None, lock_order |-> <<>>,
     flow_start |-> None, before_exchange |-> None,
     loads |-> 0, verified |-> "none", answer_yes |-> None,
     binds |-> 0, saves |-> 0]

Init ==
    /\ env \in Envs
    /\ pc = "main"
    /\ flow = "none"
    /\ run_error = None
    /\ file \in InitialFiles
    /\ config = NoConfig
    /\ client = NoClient
    /\ listener = "idle"
    /\ tx = None
    /\ chan = None
    /\ reqs = [i \in Reqs |-> [stage |-> IF i <= Sendable(env, file)
                                         THEN "new" ELSE "unsent",
                                req |-> NoRequest, resp |-> "none"]]
    /\ result = Pending
    /\ code = ""
    /\ token_requests = <<>>
    /\ exchange = [response |-> None, result |-> Pending]
    /\ fetch = NoCall
    /\ api_calls = <<>>
    /\ hist = NoHistory

Next ==
    \/ MainEnv
    \/ MainLoad
    \/ \E resp \in VerifyResponses : VerifyToken(resp)
    \/ \E answer_yes \in BOOLEAN : InteractiveAuth(answer_yes)
    \/ OAuthStart
    \/ Bind
    \/ SpawnServer
    \/ \E i \in Reqs, req \in RequestInputs : Arrive(i, req)
    \/ \E i \in Reqs : Refuse(i)
    \/ \E i \in Reqs : Handle(i)
    \/ \E i \in Reqs : Respond(i)
    \/ Receive
    \/ ExchangeTransportError
    \/ \E resp \in TokenResponses, save_ok \in BOOLEAN : ExchangeResponse(resp, save_ok)
    \/ \E call \in MainFetchInputs, names \in NamesResponses : MainFetch(call, names)

Spec == Init /\ [][Next]_vars

\* The client's operations called directly: a client with or without a
\* token, the inputs of one call.
FetchInit ==
    /\ env = {}
    /\ pc = "call"
    /\ flow = "none"
    /\ run_error = None
    /\ file = FileConfig([credentials |-> "user", access_token |-> None])
    /\ config = [credentials |-> "user", access_token |-> None]
    /\ client \in { [credentials |-> "user", access_token |-> t] :
                       t \in {None, Some("tok123")} }
    /\ listener = "idle"
    /\ tx = None
    /\ chan = None
    /\ reqs = [i \in Reqs |-> [stage |-> "unsent", req |-> NoRequest, resp |-> "none"]]
    /\ result = Pending
    /\ code = ""
    /\ token_requests = <<>>
    /\ exchange = [response |-> None, result |-> Pending]
    /\ fetch \in FetchInputs
    /\ api_calls = <<>>
    /\ hist = NoHistory

FetchNext ==
    \/ CallGetTodaysTasks
    \/ CallGetProjects
    \/ CallGetProjectData

FetchSpec == FetchInit /\ [][FetchNext]_vars

\* The helpers called directly: the inputs of one call.
HelperInit ==
    /\ env = {}
    /\ pc = "call"
    /\ flow = "none"
    /\ run_error = None
    /\ file = FileConfig([credentials |-> "user", access_token |-> None])
    /\ config = [credentials |-> "user", access_token |-> None]
    /\ client = [credentials |-> "user", access_token |-> Some("tok123")]
    /\ listener = "idle"
    /\ tx = None
    /\ chan = None
    /\ reqs = [i \in Reqs |-> [stage |-> "unsent", req |-> NoRequest, resp |-> "none"]]
    /\ result = Pending
    /\ code = ""
    /\ token_requests = <<>>
    /\ exchange = [response |-> None, result |-> Pending]
    /\ fetch \in HelperInputs
    /\ api_calls = <<>>
    /\ hist = NoHistory

HelperNext ==
    \/ CallIsTaskDueToday
    \/ CallFormatTime
    \/ CallDebugRequest

HelperSpec == HelperInit /\ [][HelperNext]_vars

\* The steps the program takes by itself: the runtime schedules a ready task.
\* Requests (Arrive), the user's answer and the remote endpoints' answers are
\* the environment's and get no fairness.
LiveSpec ==
    /\ Spec
    /\ WF_vars(MainEnv) /\ WF_vars(MainLoad) /\ WF_vars(OAuthStart)
    /\ WF_vars(Bind) /\ WF_vars(SpawnServer) /\ WF_vars(Receive)
    /\ WF_vars(\E i \in Reqs : Handle(i))
    /\ WF_vars(\E i \in Reqs : Respond(i))

-----------------------------------------------------------------------------
(* Properties                                                               *)

\* request i reached the listener and carries a code or an error on a path
\* the filter accepts
Fulfilling(i) == reqs[i].stage # "new" /\ Branch(reqs[i].req) # "not_found"

\* the handler has run on request i
Handled(i) == reqs[i].stage \in {"replied", "responded"}

Returned == result # Pending

\* the request whose handler wrote into the channel
Writer == reqs[hist.writer].req

\* C1: for one listener, whatever requests reach /callback and however they
\* interleave, at most one value is written into the handoff channel and at
\* most one value is observed by the waiter.
C1_AtMostOneHandoff ==
    /\ hist.sends <= 1
    /\ hist.received <= 1
    /\ (chan.some \/ Returned) => hist.sends = 1

C1_Witness ==
    /\ Len(hist.lock_order) >= 2
    /\ hist.sends = 1
    /\ hist.received = 1

\* C2 as stated: the value delivered is the value of the fulfilling request
\* that arrived first, and a later request never changes it.
C2_FirstArrivedWins ==
    hist.delivered.some =>
        LET first == CHOOSE i \in Reqs :
                        Fulfilling(i) /\ \A j \in Reqs : Fulfilling(j) => i <= j
        IN hist.delivered = Some(SentValue(reqs[first].req))

\* C2 as amended: the value delivered is the value of the request whose
\* handler got the lock first, whichever arrived first; no later request
\* changes it, and the waiter's result is computed from it.
C2_FirstLockedWins ==
    hist.lock_order # <<>> =>
        /\ hist.writer = Head(hist.lock_order)
        /\ hist.delivered = Some(SentValue(reqs[Head(hist.lock_order)].req))
        /\ chan.some => chan = hist.delivered
        /\ Returned => result = RecvResult(hist.delivered)

C2_Witness ==
    /\ Len(hist.lock_order) >= 2
    /\ hist.lock_order[1] = 2
    /\ hist.lock_order[2] = 1
    /\ reqs[1].req = Request(<<"callback">>, Some("abc"), None)
    /\ reqs[2].req = Request(<<"callback">>, Some("xyz"), None)
    /\ Returned
    /\ result = Ok("xyz")

\* C3: the code is available to the waiter only after the HTTP response of
\* the request that carried it has been sent.
C3_RespondThenDeliver ==
    hist.writer # 0 => reqs[hist.writer].stage = "responded"

\* C4: once start_callback_server has returned, the listener is shut down:
\* its socket is released and no further request is serviced.
C4_ListenerShutsDown ==
    [][Returned =>
          /\ listener' # "serving"
          /\ \A i \in Reqs : reqs[i].stage = "arrived" => reqs'[i].stage = "arrived"]_vars

\* C5: when the fulfilling request carries code=v, start_callback_server
\* returns Ok(v), for every v.
C5_CodeReturnedVerbatim ==
    (Returned /\ Branch(Writer) = "code") => result = Ok(Writer.code.val)

\* C6: when the fulfilling request carries error=e and no code,
\* start_callback_server returns an error whose message contains e, never a
\* success.
C6_ErrorReturnedAsError ==
    (Returned /\ ~Writer.code.some /\ Writer.error.some) =>
        /\ ~result.ok
        /\ Contains(result.msg, Writer.error.val)

C6_Witness ==
    /\ Returned
    /\ ~Writer.code.some
    /\ Writer.error.some
    /\ Writer.error.val = "ERROR:"

\* C7: a request to a path other than /callback, or to /callback with neither
\* code nor error, is answered with not-found and does not touch the handoff.
C7_OtherRequestsNotFound ==
    \A i \in Reqs :
        (Handled(i) /\ (reqs[i].req.path # <<"callback">>
                        \/ (~reqs[i].req.code.some /\ ~reqs[i].req.error.some))) =>
            /\ reqs[i].resp = "not_found"
            /\ hist.writer # i

\* C8: the wait for the authorization result always ends.
C8_WaitEnds == (pc = "await_rx") ~> Returned

\* C9: the token request is sent only after the listener returned success,
\* and with the code it returned; when the listener returns an error the flow
\* ends there, nothing is sent and client, config and file are as they were
\* when the flow started.
C9_ExchangeOnlyAfterSuccess ==
    /\ (pc = "exchange" \/ token_requests # <<>>) => (Returned /\ result.ok)
    /\ pc = "exchange" => code = result.val
    /\ token_requests # <<>> => token_requests = <<result.val>>
    /\ (Returned /\ ~result.ok) =>
          /\ pc = "aborted"
          /\ run_error = Some(result.msg)
          /\ token_requests = <<>>
          /\ exchange.result = Pending
          /\ hist.flow_start = Some(Snapshot)

C9_Witness ==
    /\ Returned
    /\ ~result.ok
    /\ flow = "interactive_auth"
    /\ pc = "aborted"

Answered == exchange.response.some

\* C10: a non-2xx answer of the token endpoint gives an error that contains
\* the body, a 2xx answer with an invalid token payload gives a decode error,
\* and in both cases client, config and file are as before the call.
C10_FailedExchangeChangesNothing ==
    Answered =>
        LET resp == exchange.response.val IN
        /\ ~IsSuccess(resp.status) =>
              /\ ~exchange.result.ok
              /\ Contains(exchange.result.msg, resp.body)
              /\ hist.before_exchange = Some(Snapshot)
        /\ (IsSuccess(resp.status) /\ ~DecodedBodies[resp.body].some) =>
              /\ exchange.result = Err("JSON decode error")
              /\ hist.before_exchange = Some(Snapshot)

C10_Witness ==
    /\ Answered
    /\ ~IsSuccess(exchange.response.val.status)
    /\ DecodedBodies[exchange.response.val.body].some
    /\ pc = "aborted"

\* exchange_code_for_token has been called and has returned
Exchanged == exchange.result # Pending

\* client, config and file when exchange_code_for_token was called
Before == hist.before_exchange.val

\* C11: after a call of exchange_code_for_token the client's access_token
\* has been set by the call if and only if the call returned success, also
\* when saving the config fails.
C11_TokenSetIffSuccess ==
    Exchanged =>
        ((client.access_token # Before.client.access_token) <=> exchange.result.ok)

\* the operation called on the client has returned
CallReturned(op) == pc = "returned" /\ fetch.op = op

\* the projects the API listed to the call, in order
Listed == fetch.api.projects.body.value

\* get_project_data succeeds for project p in the call
DataFetched(p) == GetProjectData(client.access_token, p.id, fetch.api.data[p.id]).result.ok

\* C12: when listing the projects succeeds, get_todays_tasks returns success
\* whatever the outcome of each project: every project is asked for its data,
\* also those after a failed one, and every qualifying task of every project
\* whose data arrived is in the result.
C12_FailureNeverAbortsLoop ==
    (CallReturned("get_todays_tasks")
       /\ GetProjects(client.access_token, fetch.api.projects).result.ok) =>
        /\ fetch.out.ok
        /\ Len(api_calls) = 1 + Len(Listed)
        /\ \A i \in 1..Len(Listed) :
              /\ api_calls[i + 1].url = "/open/v1/project/" \o Listed[i].id \o "/data"
              /\ DataFetched(Listed[i]) =>
                    LET tasks == fetch.api.data[Listed[i].id].body.value.tasks IN
                    \A k \in 1..Len(tasks) :
                        Qualifies(tasks[k], fetch.today, fetch.zone) =>
                            \E m \in 1..Len(fetch.out.val) : fetch.out.val[m] = tasks[k]

C12_Witness ==
    /\ CallReturned("get_todays_tasks")
    /\ Len(Listed) = 2
    /\ fetch.api.projects.body.shape = "projects"
    /\ client.access_token.some
    /\ ~DataFetched(Listed[1])
    /\ DataFetched(Listed[2])
    /\ fetch.out.ok
    /\ fetch.out.val # <<>>

\* C13: when get_project_data fails for some projects, the value returned by
\* get_todays_tasks names each failed project.
C13_FailuresReturned ==
    (CallReturned("get_todays_tasks") /\ fetch.out.ok) =>
        \A i \in 1..Len(fetch.printed) :
            \E m \in 1..Len(fetch.out.val) :
                \E p \in {Listed[j] : j \in 1..Len(Listed)} :
                    /\ p.name = fetch.printed[i].project
                    /\ fetch.out.val[m].project_id = p.id

\* a raw date resolves to today's local date: it parses, and the date of the
\* parsed value, taken as local time, is today
ResolvesToToday(raw) ==
    /\ raw.some
    /\ ParsedDates[raw.val].ok
    /\ ParsedDates[raw.val].val.date = fetch.today

\* the condition of C14 on a task
DueToday(t) ==
    t.status = 0 /\ (ResolvesToToday(t.due_date) \/ ResolvesToToday(t.start_date))

\* C14: every task returned by get_todays_tasks has status 0 and a due or
\* start date that resolves to today's local date, every such task of a
\* fetched project is returned, and the others are dropped without an error.
C14_ExactlyTodaysOpenTasks ==
    (CallReturned("get_todays_tasks")
       /\ GetProjects(client.access_token, fetch.api.projects).result.ok) =>
        /\ fetch.out.ok
        /\ \A m \in 1..Len(fetch.out.val) : DueToday(fetch.out.val[m])
        /\ \A i \in 1..Len(Listed) :
              DataFetched(Listed[i]) =>
                  LET tasks == fetch.api.data[Listed[i].id].body.value.tasks IN
                  Len(SelectSeq(fetch.out.val, LAMBDA t : t.project_id = Listed[i].id))
                      = Cardinality({k \in 1..Len(tasks) : DueToday(tasks[k])})

C14_Witness ==
    /\ CallReturned("get_todays_tasks")
    /\ fetch.zone = "dst"
    /\ fetch.today = "2026-11-04"
    /\ fetch.out.ok
    /\ Len(fetch.out.val) = 1
    /\ fetch.out.val[1].id = "c"
    /\ Len(Listed) = 1
    /\ Len(fetch.api.data[Listed[1].id].body.value.tasks) = 3

\* C15: without a token get_projects and get_project_data return the
\* unauthenticated error and send nothing; no request is sent without a
\* token by any operation.
C15_NoTokenNoRequest ==
    /\ \A k \in 1..Len(api_calls) : StartsWith(api_calls[k].authorization, "Bearer ")
    /\ ((CallReturned("get_projects") \/ CallReturned("get_project_data"))
          /\ ~client.access_token.some) =>
            /\ fetch.out = Err("No access token available. Please authenticate first.")
            /\ api_calls = <<>>

C15_Witness ==
    /\ CallReturned("get_projects")
    /\ ~client.access_token.some
    /\ fetch.api.projects.arrived
    /\ IsSuccess(fetch.api.projects.status)
    /\ ~fetch.out.ok

\* the flow is between its start and the return of the token exchange
InFlow == pc \in {"oauth_start", "bind", "spawn", "await_rx", "exchange"}

\* main has returned
Ended == pc \in {"done", "aborted"}

\* C16: when the verification of a stored token fails, main does not stop
\* there: the token is cleared in the in-memory config, the flow starts with
\* a client without token, and every later API request carries the newly
\* exchanged token.
C16_FailedVerifyStartsFreshFlow ==
    hist.verified = "failed" =>
        /\ flow = "perform_oauth_flow"
        /\ pc # "verify"
        /\ InFlow => (config.access_token = None /\ client.access_token = None)
        /\ ~InFlow => /\ hist.flow_start.some
                      /\ hist.flow_start.val.config.access_token = None
                      /\ hist.flow_start.val.client.access_token = None
        /\ Len(api_calls) >= 1
        /\ api_calls[1].authorization = "Bearer stored"
        /\ \A k \in 2..Len(api_calls) :
              /\ exchange.result.ok
              /\ api_calls[k].authorization =
                    "Bearer " \o DecodedBodies[exchange.response.val.body].val.access_token

C16_Witness ==
    /\ hist.verified = "failed"
    /\ pc = "done"
    /\ fetch.out # Pending
    /\ fetch.out.ok
    /\ Len(api_calls) = 5

\* C17: with all four environment variables set the run never loads the
\* config file, never starts the listener and never exchanges a code,
\* whatever the API answers later; with one of them missing no environment
\* value is used.
C17_EnvFastPath ==
    /\ EnvVars \subseteq env =>
          /\ hist.loads = 0
          /\ listener = "idle"
          /\ token_requests = <<>>
          /\ config = NoConfig
          /\ pc # "main" => client = [credentials |-> "env",
                                      access_token |-> Some("envtoken")]
          /\ \A k \in 1..Len(api_calls) : api_calls[k].authorization = "Bearer envtoken"
    /\ ~(EnvVars \subseteq env) =>
          /\ client.credentials # "env"
          /\ client.access_token # Some("envtoken")
          /\ \A k \in 1..Len(api_calls) : api_calls[k].authorization # "Bearer envtoken"
          /\ pc # "main" => hist.loads >= 1

C17_Witness ==
    /\ EnvVars \subseteq env
    /\ pc = "aborted"
    /\ Len(api_calls) = 4

\* Config::load failed in main
LoadFailed == flow = "interactive_auth"

\* C18 as stated: when the fast path is not taken and loading the config
\* file fails, the run aborts: no listener is started, no token exchange is
\* attempted and no task is fetched.
C18_LoadFailureAborts ==
    LoadFailed =>
        /\ listener = "idle"
        /\ token_requests = <<>>
        /\ api_calls = <<>>

\* C18 as amended: when the fast path is not taken and loading the config
\* file fails, main falls back to interactive_auth; the run aborts without
\* listener, exchange and fetch when the user asks for an example file, and
\* otherwise the flow starts with the credentials the user types.
C18_LoadFailureFallsBack ==
    LoadFailed =>
        /\ ~(EnvVars \subseteq env)
        /\ hist.answer_yes = Some(TRUE) =>
              /\ pc = "aborted"
              /\ run_error.some
              /\ listener = "idle"
              /\ token_requests = <<>>
              /\ api_calls = <<>>
        /\ hist.answer_yes = Some(FALSE) =>
              /\ config.credentials = "typed"
              /\ client.credentials = "typed"
              /\ (pc = "oauth_start" \/ hist.flow_start.some)
              /\ listener # "idle" => hist.flow_start.val.config.credentials = "typed"

C18_Witness ==
    /\ LoadFailed
    /\ hist.answer_yes = Some(TRUE)
    /\ file = FileConfig([credentials |-> "example", access_token |-> None])
    /\ pc = "aborted"

\* C19: once authentication has produced a client, main ends with success in
\* every case: an empty list, a non-empty list whatever the second
\* get_projects answers, an error of get_todays_tasks.
C19_AlwaysSuccessExit ==
    (Ended /\ fetch.out # Pending) => (pc = "done" /\ run_error = None)

\* C20 as stated: exchange_code_for_token leaves the caller's Config
\* unchanged and does not write the config file.
C20_ConfigUntouched ==
    Exchanged => (config = Before.config /\ file = Before.file)

\* C20 as amended: exchange_code_for_token never changes the credentials of
\* the caller's Config; on a 2xx answer with a valid payload it stores the new
\* token in that Config and writes the config file itself; on any other
\* answer Config and file are unchanged.
C20_TokenStoredAndSaved ==
    Exchanged =>
        /\ config.credentials = Before.config.credentials
        /\ client.credentials = Before.client.credentials
        /\ (Answered /\ IsSuccess(exchange.response.val.status)
              /\ DecodedBodies[exchange.response.val.body].some) =>
              /\ config.access_token =
                    Some(DecodedBodies[exchange.response.val.body].val.access_token)
              /\ exchange.result.ok => file = FileConfig(config)
              /\ ~exchange.result.ok => file = Before.file
        /\ ~(Answered /\ IsSuccess(exchange.response.val.status)
               /\ DecodedBodies[exchange.response.val.body].some) =>
              /\ config = Before.config
              /\ file = Before.file

C20_Witness ==
    /\ Exchanged
    /\ exchange.result.ok
    /\ Before.file = FileMissing
    /\ file = FileConfig([credentials |-> "typed", access_token |-> Some("tok123")])

\* C21: in every run of main at most one callback listener is started and
\* at most one token request is sent, on every branch.
C21_OneAuthenticationAttempt ==
    /\ hist.binds <= 1
    /\ Len(token_requests) <= 1
    /\ hist.received <= 1
    /\ EnvFastPath(env) => (hist.binds = 0 /\ token_requests = <<>>)
    /\ hist.verified = "ok" => (hist.binds = 0 /\ token_requests = <<>>)

C21_Witness ==
    /\ hist.verified = "failed"
    /\ hist.binds = 1
    /\ Len(token_requests) = 1
    /\ pc = "aborted"
    /\ fetch.out = Pending

\* the browser was launched with the authorization URL
Launched == hist.flow_start.some

\* C26: the listener is bound and accepting before the authorization URL is
\* handed to the browser, so no request sent after the launch is refused.
C26_ListeningBeforeLaunch ==
    Launched =>
        /\ listener = "serving"
        /\ \A i \in Reqs : reqs[i].stage # "refused"

\* the token endpoint answered 2xx with a valid token payload
TokenObtained ==
    /\ Answered
    /\ IsSuccess(exchange.response.val.status)
    /\ DecodedBodies[exchange.response.val.body].some

\* the run ended inside the flow that followed a failed verification
FlowFailedAfterVerify ==
    /\ hist.verified = "failed"
    /\ pc = "aborted"
    /\ fetch.out = Pending

StoredFile == FileConfig([credentials |-> "user", access_token |-> Some("stored")])

\* C27 as stated: when a stored token is found invalid and the flow that
\* follows fails, the config file is unchanged and Config::save was never
\* called.
C27_NeverSavedOnFailure ==
    FlowFailedAfterVerify => (file = StoredFile /\ hist.saves = 0)

\* C27 as amended: the cleared token is never written; when the listener
\* returns an error or the token endpoint gives no valid token, Config::save
\* is not called and the file is unchanged; when a token was obtained and
\* saving it failed, Config::save was called once, with the new token.
C27_SavedOnlyWithNewToken ==
    hist.verified = "failed" =>
        /\ file.kind = "config" /\ file.access_token.some
        /\ hist.saves <= 1
        /\ hist.saves = 1 <=> TokenObtained
        /\ hist.saves = 0 => file = StoredFile
        /\ FlowFailedAfterVerify =>
              /\ run_error.some
              /\ TokenObtained => /\ exchange.result = Err("Failed to write config file")
                                  /\ config.access_token = Some("tok123")

C27_Witness ==
    /\ FlowFailedAfterVerify
    /\ Returned
    /\ ~result.ok
    /\ hist.saves = 0
    /\ file = StoredFile
    /\ config.access_token = None

\* C28: a request to /callback whose state parameter is absent or differs
\* from the state of the authorization URL does not fulfil the waiter.
C28_StateChecked ==
    hist.writer # 0 => Writer.state = Some(AuthState)

\* C25: when get_projects fails inside get_todays_tasks the operation returns
\* that error at once: no get_project_data request is sent and no task list
\* is returned.
C25_ListFailureIsFatal ==
    (CallReturned("get_todays_tasks")
       /\ ~GetProjects(client.access_token, fetch.api.projects).result.ok) =>
        /\ fetch.out = GetProjects(client.access_token, fetch.api.projects).result
        /\ ~fetch.out.ok
        /\ fetch.printed = <<>>
        /\ Len(api_calls) <= 1
        /\ \A k \in 1..Len(api_calls) : api_calls[k].url = "/open/v1/project"

C25_Witness ==
    /\ CallReturned("get_todays_tasks")
    /\ client.access_token.some
    /\ fetch.api.projects.arrived
    /\ fetch.api.projects.status = 401
    /\ fetch.out = Err("Failed to get projects: token expired")
    /\ Len(api_calls) = 1

\* a helper has been called and has returned
HelperReturned(op) == pc = "returned" /\ fetch.op = op

\* the raw date parses and, taken as local time, is not a single local time
NotSingle(raw) ==
    /\ ParsedDates[raw].ok
    /\ FromLocalDatetime(ParsedDates[raw].val, fetch.zone).kind # "single"

\* the date component of the raw date is today's
DateComponentIsToday(raw) ==
    raw.some /\ ParsedDates[raw.val].ok /\ ParsedDates[raw.val].val.date = fetch.now.date

\* C22: when the parsed naive datetime is not a single local time, the date
\* used is the date component of the parsed value, in is_task_due_today and
\* in format_time's choice of Today, Tomorrow or the month and day.
C22_FallbackToDateComponent ==
    /\ (HelperReturned("is_task_due_today")
          /\ \E raw \in {fetch.arg.due_date, fetch.arg.start_date} :
                raw.some /\ NotSingle(raw.val)) =>
            (fetch.out <=> (DateComponentIsToday(fetch.arg.due_date)
                            \/ DateComponentIsToday(fetch.arg.start_date)))
    /\ (HelperReturned("format_time") /\ NotSingle(fetch.arg)) =>
            fetch.out = Render(ParsedDates[fetch.arg].val, fetch.now)

\* C23: a date string that does not parse never gives an error: the today
\* check takes it as not today, so that a task with such a due_date qualifies
\* exactly when its start_date is today, and format_time returns
\* "Invalid time".
C23_MalformedDateIsNotAnError ==
    /\ (HelperReturned("format_time") /\ ~ParsedDates[fetch.arg].ok) =>
            fetch.out = "Invalid time"
    /\ (HelperReturned("is_task_due_today")
          /\ fetch.arg.due_date.some /\ ~ParsedDates[fetch.arg.due_date.val].ok) =>
            /\ fetch.out \in BOOLEAN
            /\ fetch.out <=> DateComponentIsToday(fetch.arg.start_date)
    /\ (HelperReturned("is_task_due_today")
          /\ fetch.arg.start_date.some /\ ~ParsedDates[fetch.arg.start_date.val].ok) =>
            /\ fetch.out \in BOOLEAN
            /\ fetch.out <=> DateComponentIsToday(fetch.arg.due_date)

C23_Witness ==
    /\ HelperReturned("is_task_due_today")
    /\ fetch.arg.due_date = Some("someday")
    /\ fetch.arg.start_date = Some("2026-11-05")
    /\ fetch.now.date = "2026-11-05"
    /\ fetch.out = TRUE

\* C24: debug_request prints neither the value of the Authorization header
\* nor a body that contains client_secret.
C24_NoSecretsLogged ==
    HelperReturned("debug_request") =>
        \A k \in 1..Len(fetch.out) :
            /\ \A h \in 1..Len(fetch.arg.headers) :
                  fetch.arg.headers[h].name = "authorization" =>
                      ~Contains(fetch.out[k], fetch.arg.headers[h].value)
            /\ (fetch.arg.body.some /\ Contains(fetch.arg.body.val, "client_secret")) =>
                  ~Contains(fetch.out[k], fetch.arg.body.val)

====
